---- MODULE Spec2Model ----
(***************************************************************************)
(* Block reconciliation and page assembly of alf1650/merge_pdf.            *)
(*                                                                         *)
(*   merge_pdf_with_easyocr.py   OCR, noise filter, cluster reconciler,    *)
(*                               inline assembly, one try/except per PDF   *)
(*   merge_pdf_monthly.py        persisted recognition data (JSON),        *)
(*                               trailing assembly                         *)
(*   insert_images_dry_riser_nsc.py / _nse.py                              *)
(*                               hardcoded BLOCKS_PER_PAGE table, inline   *)
(*   insert_images_dry_riser_cp.py                                         *)
(*                               index build with natsort, thumbnail       *)
(*                               renderer                                  *)
(*                                                                         *)
(* Besides the assembly loops the module covers the build of the image     *)
(* index from a directory listing and image_to_pdf_page's scaling.         *)
(*                                                                         *)
(* A PDF page is modelled by what distinguishes it in the output: a source *)
(* page by its index, an image page by the asset it was rendered from.     *)
(***************************************************************************)
EXTENDS Integers, Sequences, FiniteSets, TLC

VARIABLES
    pc,               \* position of the running script
    images_by_block,  \* ImageIndex: block key -> sequence of assets
    cfg,              \* thresholds handed to normalize_page_blocks
    blocks,           \* normalize_page_blocks' input stream (reconciler run)
    normalized,       \* what normalize_page_blocks returned
    reconciled,       \* dedup_and_sort_desc(normalized)
    bad,              \* assets whose rendering fails (missing, empty, corrupt)
    k,                \* index of the document being processed (0-based)
    reader_pages,     \* len(reader.pages) of the current document
    page_blocks,      \* recognition data of the current document, one entry per page
    i,                \* page loop index (0-based)
    writer,           \* pages appended to the PdfWriter so far
    collected,        \* all_collected_image_pages (merge_pdf_monthly)
    outcome,          \* per processed document: what became of it
    log,              \* report lines printed so far
    ndocs,            \* len(pdf_files): documents in the batch
    script,           \* which script's index build or renderer is running
    image_files,      \* the image files of the directory, in os.listdir order
    skipped_files,    \* skipped_files of merge_pdf_with_easyocr
    raw_blocks_per_page,  \* what OCR read, page by page, before the noise filter
    global_noise,     \* global_noise of get_blocks_per_page_with_ocr
    img_size,         \* img.size of the image being rendered: <<width, height>>
    page_size,        \* the page's mediabox: <<width, height>> in points
    rendered          \* what image_to_pdf_page computed for the image

\* the locals of an index build, of recognition and of one rendering
indexVars == <<script, image_files, skipped_files>>

ocrVars == <<raw_blocks_per_page, global_noise>>

renderVars == <<img_size, page_size, rendered>>

vars == <<pc, images_by_block, cfg, blocks, normalized, reconciled, bad, k,
          reader_pages, page_blocks, i, writer, collected, outcome, log, ndocs,
          indexVars, ocrVars, renderVars>>

(***************************************************************************)
(* Bounds of the model.                                                    *)
(***************************************************************************)
MaxLen == 3        \* longest enumerated input stream of the reconciler
MaxDocs == 2       \* documents in a batch
MaxPages == 2      \* pages of a document, and entries of its recognition data
MaxPdfPages == 21  \* pages of the PDF given to a hardcoded-table script

(***************************************************************************)
(* Program constants.                                                      *)
(***************************************************************************)
DEFAULT_coverage_window == 20
DEFAULT_min_present_for_fill == 3
DEFAULT_coverage_ratio_num == 3      \* 0.6 = 3/5
DEFAULT_coverage_ratio_den == 5
DEFAULT_cluster_gap == 3

\* Block identifiers of the reconciler runs: a run of neighbours and one far id.
Ids == {107, 108, 109, 110, 111, 300}

\* The thresholds are parameters of normalize_page_blocks; main passes none,
\* so the pipeline always runs with the defaults.
DefaultConfig ==
    [coverage_window |-> DEFAULT_coverage_window,
     min_present_for_fill |-> DEFAULT_min_present_for_fill,
     ratio_num |-> DEFAULT_coverage_ratio_num,
     ratio_den |-> DEFAULT_coverage_ratio_den,
     cluster_gap |-> DEFAULT_cluster_gap]

\* A second, tighter setting of the same parameters, under which the
\* coverage-ratio disjunct decides with few identifiers.
TightConfig ==
    [coverage_window |-> 1, min_present_for_fill |-> 2,
     ratio_num |-> 3, ratio_den |-> 4, cluster_gap |-> 2]

Configs == {DefaultConfig, TightConfig}

ExampleStream == <<107, 107, 109, 108, 300, 107>>

\* a chain of neighbours whose ends are further apart than the gap, and a far id
ChainStream == <<111, 107, 300, 109>>

\* two clusters of two identifiers, the later one the narrower
TieStream == <<300, 301, 107, 109>>

Streams ==
    UNION {[1..n -> Ids] : n \in 0..MaxLen} \cup {ExampleStream, ChainStream, TieStream}

\* every catalog over Ids, and one that holds both clusters of TieStream
Catalogs == SUBSET Ids \cup {{107, 109, 300, 301}}

(***************************************************************************)
(* The scripts, and the values of the locals that a run leaves untouched.  *)
(***************************************************************************)
EASYOCR == "merge_pdf_with_easyocr"
CP == "insert_images_dry_riser_cp"
NSC == "insert_images_dry_riser_nsc"
NSE == "insert_images_dry_riser_nse"
MONTHLY == "merge_pdf_monthly"

NoRendering == [target |-> <<0, 0>>, size |-> <<0, 0>>, offset |-> <<0, 0>>,
                page |-> "not_called"]

IdleIndex == image_files = <<>> /\ skipped_files = <<>>

IdleOcr == raw_blocks_per_page = <<>> /\ global_noise = {}

IdleRender == img_size = <<0, 0>> /\ page_size = <<0, 0>> /\ rendered = NoRendering

(***************************************************************************)
(* Sequence helpers (Python list / sorted / set semantics).                *)
(***************************************************************************)
Range(s) == {s[j] : j \in 1..Len(s)}

Last(s) == s[Len(s)]

SetMin(S) == CHOOSE x \in S : \A y \in S : x <= y

SetMax(S) == CHOOSE x \in S : \A y \in S : x >= y

\* sorted(S): ascending
RECURSIVE SortedAsc(_)
SortedAsc(S) ==
    IF S = {} THEN <<>>
    ELSE LET m == SetMin(S) IN <<m>> \o SortedAsc(S \ {m})

\* sorted(S, reverse=True): descending
RECURSIVE SortedDesc(_)
SortedDesc(S) ==
    IF S = {} THEN <<>>
    ELSE LET m == SetMax(S) IN <<m>> \o SortedDesc(S \ {m})

\* list(dict.fromkeys(seq)): first occurrences, in order
RECURSIVE FromKeys(_, _)
FromKeys(seq, seen) ==
    IF seq = <<>> THEN <<>>
    ELSE IF Head(seq) \in seen THEN FromKeys(Tail(seq), seen)
    ELSE <<Head(seq)>> \o FromKeys(Tail(seq), seen \cup {Head(seq)})

RECURSIVE Concat(_)
Concat(ss) == IF ss = <<>> THEN <<>> ELSE Head(ss) \o Concat(Tail(ss))

MinOf(a, b) == IF a <= b THEN a ELSE b

(***************************************************************************)
(* Strings.  A file name is the sequence of its characters, so that the    *)
(* regular expressions, lower(), str(), int() and the comparisons of the   *)
(* scripts are computed character by character.                            *)
(***************************************************************************)
Digits == <<"0", "1", "2", "3", "4", "5", "6", "7", "8", "9">>

UpperCase == <<"A", "B", "C", "D", "E", "F", "G", "H", "I", "J", "K", "L", "M",
               "N", "O", "P", "Q", "R", "S", "T", "U", "V", "W", "X", "Y", "Z">>

LowerCase == <<"a", "b", "c", "d", "e", "f", "g", "h", "i", "j", "k", "l", "m",
               "n", "o", "p", "q", "r", "s", "t", "u", "v", "w", "x", "y", "z">>

\* the characters of the file names, in code point order
CharOrder == <<" ", "-", ".">> \o Digits \o UpperCase \o <<"_">> \o LowerCase

IndexIn(c, seq) == CHOOSE j \in 1..Len(seq) : seq[j] = c

ord(c) == IndexIn(c, CharOrder)

isdigit(c) == c \in Range(Digits)

isalpha(c) == c \in Range(UpperCase) \cup Range(LowerCase)

\* \w of the re module, for these characters
IsWordChar(c) == isdigit(c) \/ isalpha(c) \/ c = "_"

lower_char(c) == IF c \in Range(UpperCase) THEN LowerCase[IndexIn(c, UpperCase)] ELSE c

\* str.lower()
lower(s) == [j \in 1..Len(s) |-> lower_char(s[j])]

startswith(s, prefix) ==
    Len(prefix) <= Len(s) /\ SubSeq(s, 1, Len(prefix)) = prefix

endswith(s, suffix) ==
    Len(suffix) <= Len(s) /\ SubSeq(s, Len(s) - Len(suffix) + 1, Len(s)) = suffix

\* int(x) of a string of decimal digits
RECURSIVE int(_)
int(ds) ==
    IF ds = <<>> THEN 0
    ELSE 10 * int(SubSeq(ds, 1, Len(ds) - 1)) + (IndexIn(Last(ds), Digits) - 1)

\* str(n) of a natural number
RECURSIVE str(_)
str(n) ==
    IF n < 10 THEN <<Digits[n + 1]>>
    ELSE Append(str(n \div 10), Digits[(n % 10) + 1])

\* s < t as Python compares strings: by code point, a proper prefix first
RECURSIVE StrLess(_, _)
StrLess(s, t) ==
    IF t = <<>> THEN FALSE
    ELSE IF s = <<>> THEN TRUE
    ELSE IF Head(s) # Head(t) THEN ord(Head(s)) < ord(Head(t))
    ELSE StrLess(Tail(s), Tail(t))

\* the length of the longest run of digits of s that starts at index from
RECURSIVE DigitRun(_, _)
DigitRun(s, from) ==
    IF from > Len(s) \/ ~isdigit(s[from]) THEN 0 ELSE 1 + DigitRun(s, from + 1)

\* sorted(seq, key=...) and list.sort(): a stable sort, Less comparing the
\* keys; x goes behind the elements that are not greater than it
InsertStable(sorted, x, less) ==
    LET n == Cardinality({j \in 1..Len(sorted) : <<x, sorted[j]>> \notin less})
    IN SubSeq(sorted, 1, n) \o <<x>> \o SubSeq(sorted, n + 1, Len(sorted))

StableSort(seq, less) ==
    LET f[n \in 0..Len(seq)] ==
            IF n = 0 THEN <<>> ELSE InsertStable(f[n - 1], seq[n], less)
    IN f[Len(seq)]

(***************************************************************************)
(* normalize_page_blocks, step by step.                                    *)
(***************************************************************************)
\* present = [b for b in blocks if b in images_by_block]
InIndex(idx, b) == b \in DOMAIN idx

Present(bs, idx) == SelectSeq(bs, LAMBDA b : InIndex(idx, b))

\* the loop dropping consecutive duplicates; last starts as None
RECURSIVE DedupConsecFrom(_, _, _)
DedupConsecFrom(s, hasLast, last) ==
    IF s = <<>> THEN <<>>
    ELSE IF hasLast /\ Head(s) = last
         THEN DedupConsecFrom(Tail(s), TRUE, Head(s))
         ELSE <<Head(s)>> \o DedupConsecFrom(Tail(s), TRUE, Head(s))

DedupConsec(s) == DedupConsecFrom(s, FALSE, 0)

UniqSorted(s) == SortedAsc(Range(DedupConsec(s)))

\* the proximity test with the threshold itself excluded
SameCluster_Strict(prev, b, gap) == b - prev < gap

\* the clustering loop: cur is the open cluster, done the closed ones
SameCluster(prev, b, gap) == b - prev <= gap

RECURSIVE ClusterLoop(_, _, _, _)
ClusterLoop(rest, cur, done, gap) ==
    IF rest = <<>> THEN Append(done, cur)
    ELSE IF SameCluster(Last(cur), Head(rest), gap)
         THEN ClusterLoop(Tail(rest), Append(cur, Head(rest)), done, gap)
         ELSE ClusterLoop(Tail(rest), <<Head(rest)>>, Append(done, cur), gap)

Clusters(uniq, gap) == ClusterLoop(Tail(uniq), <<Head(uniq)>>, <<>>, gap)

\* the score by membership count alone
ScoreLess_CountOnly(c, d) == Len(c) < Len(d)

\* score(c) = (len(c), -(c[-1] - c[0])), compared as Python compares tuples
ScoreLess(c, d) ==
    \/ Len(c) < Len(d)
    \/ Len(c) = Len(d) /\ (0 - (Last(c) - c[1])) < (0 - (Last(d) - d[1]))

\* max(clusters, key=score): the first cluster of maximal score
RECURSIVE MaxByScore(_, _)
MaxByScore(cs, bestSoFar) ==
    IF cs = <<>> THEN bestSoFar
    ELSE IF ScoreLess(bestSoFar, Head(cs))
         THEN MaxByScore(Tail(cs), Head(cs))
         ELSE MaxByScore(Tail(cs), bestSoFar)

Best(clusters) == MaxByScore(Tail(clusters), Head(clusters))

MaxOf(a, b) == IF a >= b THEN a ELSE b

\* ok_for_fill without the minimum-membership conjunct
OkForFill_NoMinimum(best, n, c) ==
    \/ Last(best) - best[1] <= c.coverage_window
    \/ Len(best) * c.ratio_den >= c.ratio_num * MaxOf(1, n)

\* ok_for_fill; seen_ratio = len(best) / max(1, n) >= ratio, in exact
\* arithmetic (the float quotient of two small integers compares with 0.6 as
\* the exact quotient does)
OkForFill(best, n, c) ==
    /\ Len(best) >= c.min_present_for_fill
    /\ \/ Last(best) - best[1] <= c.coverage_window
       \/ Len(best) * c.ratio_den >= c.ratio_num * MaxOf(1, n)

\* the range without the catalog filter: list(range(bmin, bmax + 1))
RECURSIVE FillRange_Unfiltered(_, _, _)
FillRange_Unfiltered(lo, hi, idx) ==
    IF lo > hi THEN <<>> ELSE <<lo>> \o FillRange_Unfiltered(lo + 1, hi, idx)

\* [b for b in range(bmin, bmax + 1) if b in images_by_block]
RECURSIVE FillRange(_, _, _)
FillRange(lo, hi, idx) ==
    IF lo > hi THEN <<>>
    ELSE (IF InIndex(idx, lo) THEN <<lo>> ELSE <<>>) \o FillRange(lo + 1, hi, idx)

BestOf(bs, idx, c) == Best(Clusters(UniqSorted(Present(bs, idx)), c.cluster_gap))

\* normalize_page_blocks with n counting the occurrences left after the
\* collapse instead of the distinct identifiers
normalize_page_blocks_CountOccurrences(bs, idx, c) ==
    LET present == Present(bs, idx) IN
    IF present = <<>> THEN <<>>
    ELSE LET dedup_consec == DedupConsec(present)
             uniq_sorted == SortedAsc(Range(dedup_consec))
             best == Best(Clusters(uniq_sorted, c.cluster_gap))
         IN IF OkForFill(best, Len(dedup_consec), c)
            THEN FillRange(best[1], Last(best), idx)
            ELSE best

normalize_page_blocks(bs, idx, c) ==
    LET present == Present(bs, idx) IN
    IF present = <<>> THEN <<>>
    ELSE LET dedup_consec == DedupConsec(present)
             uniq_sorted == SortedAsc(Range(dedup_consec))
             best == Best(Clusters(uniq_sorted, c.cluster_gap))
         IN IF OkForFill(best, Cardinality(Range(dedup_consec)), c)
            THEN FillRange(best[1], Last(best), idx)
            ELSE best

\* the ascending convention of make_ocr_blocklist in place of reverse=True
dedup_and_sort_asc(seq) == SortedAsc(Range(FromKeys(seq, {})))

dedup_and_sort_desc(seq) == SortedDesc(Range(FromKeys(seq, {})))

(***************************************************************************)
(* Reconciler run: one call of normalize_page_blocks followed by           *)
(* dedup_and_sort_desc, as main does for a page, on enumerated inputs.     *)
(***************************************************************************)
\* An ImageIndex over a key set; an asset is <<key, n>>: the n-th file of the key.
OneAssetIndex(S) == [b \in S |-> <<<<b, 1>>>>]

InitNorm ==
    /\ pc = "norm_start"
    /\ images_by_block \in {OneAssetIndex(S) : S \in Catalogs}
    /\ cfg \in Configs
    /\ blocks \in Streams
    /\ normalized = <<>>
    /\ reconciled = <<>>
    /\ bad = {}
    /\ k = 0
    /\ reader_pages = 0
    /\ page_blocks = <<>>
    /\ i = 0
    /\ writer = <<>>
    /\ collected = <<>>
    /\ outcome = <<>>
    /\ log = {}
    /\ ndocs = 0
    /\ script = EASYOCR
    /\ IdleIndex
    /\ IdleOcr
    /\ IdleRender

Normalize ==
    /\ pc = "norm_start"
    /\ normalized' = normalize_page_blocks(blocks, images_by_block, cfg)
    /\ pc' = "normalized"
    /\ UNCHANGED <<indexVars, ocrVars, renderVars, images_by_block, cfg, blocks, reconciled, bad, k, reader_pages,
                   page_blocks, i, writer, collected, outcome, log, ndocs>>

DedupSort ==
    /\ pc = "normalized"
    /\ reconciled' = dedup_and_sort_desc(normalized)
    /\ pc' = "reconciled"
    /\ UNCHANGED <<indexVars, ocrVars, renderVars, images_by_block, cfg, blocks, normalized, bad, k, reader_pages,
                   page_blocks, i, writer, collected, outcome, log, ndocs>>

NextNorm == Normalize \/ DedupSort

SpecNorm == InitNorm /\ [][NextNorm]_vars

(***************************************************************************)
(* Building the ImageIndex from the listing of the image directory.        *)
(***************************************************************************)
\* f.lower().endswith(('.jpg', '.jpeg', '.png'))
IsImageFile(f) ==
    \E ext \in {<<".", "j", "p", "g">>, <<".", "j", "p", "e", "g">>,
                 <<".", "p", "n", "g">>} : endswith(lower(f), ext)

\* image_files = [f for f in os.listdir(image_dir) if ...]
ImageFilesOf(listing) == SelectSeq(listing, IsImageFile)

\* images_by_block.setdefault(block, []).append(x)
SetDefaultAppend(idx, block, x) ==
    IF block \in DOMAIN idx
    THEN [idx EXCEPT ![block] = Append(@, x)]
    ELSE [b \in DOMAIN idx \cup {block} |-> IF b = block THEN <<x>> ELSE idx[b]]

\* os.path.splitext(basename)[0]: cut at the last dot, unless only dots precede it
splitext_root(s) ==
    LET dots == {j \in 1..Len(s) : s[j] = "."} IN
    IF dots = {} THEN s
    ELSE LET p == SetMax(dots) IN
         IF \E j \in 1..(p - 1) : s[j] # "." THEN SubSeq(s, 1, p - 1) ELSE s

\* rest.split('_')[0]
BeforeUnderscore(s) ==
    LET us == {j \in 1..Len(s) : s[j] = "_"} IN
    IF us = {} THEN s ELSE SubSeq(s, 1, SetMin(us) - 1)

\* s.replace('-', '').replace(' ', '').isalnum()
IsAlnumWithoutDashSpace(s) ==
    LET r == SelectSeq(s, LAMBDA c : c # "-" /\ c # " ") IN
    r # <<>> /\ \A j \in 1..Len(r) : isdigit(r[j]) \/ isalpha(r[j])

\* "hosereel_", "fire_extinguisher_", "pressure_tank_"
valid_prefixes ==
    << <<"h", "o", "s", "e", "r", "e", "e", "l", "_">>,
       <<"f", "i", "r", "e", "_", "e", "x", "t", "i", "n", "g", "u", "i", "s", "h",
         "e", "r", "_">>,
       <<"p", "r", "e", "s", "s", "u", "r", "e", "_", "t", "a", "n", "k", "_">> >>

\* None, and a returned value v, of the extract_block_from_filename functions
None == <<>>

Some(v) == <<v>>

\* extract_block_from_filename of merge_pdf_monthly: the block is the string
\* between the prefix and the next underscore ("115A"), or None.  The names
\* of a listing hold no path separator, so os.path.basename changes nothing.
RECURSIVE monthly_try_prefixes(_, _)
monthly_try_prefixes(basename, prefixes) ==
    IF prefixes = <<>> THEN None
    ELSE IF startswith(basename, Head(prefixes))
         THEN LET rest == SubSeq(basename, Len(Head(prefixes)) + 1, Len(basename))
                  block_candidate == BeforeUnderscore(rest)
              IN IF /\ block_candidate # <<>>
                    /\ isdigit(block_candidate[1])
                    /\ IsAlnumWithoutDashSpace(block_candidate)
                 THEN Some(block_candidate)
                 ELSE monthly_try_prefixes(basename, Tail(prefixes))
         ELSE monthly_try_prefixes(basename, Tail(prefixes))

monthly_extract_block_from_filename(filename) ==
    monthly_try_prefixes(splitext_root(filename), valid_prefixes)

\* the body of merge_pdf_monthly's index loop; empty holds the files of 0 bytes
MonthlyAddFile(st, img_file, empty) ==
    IF img_file \in empty
    THEN [st EXCEPT !.log = @ \cup {<<"skip_empty", img_file>>}]
    ELSE LET block == monthly_extract_block_from_filename(img_file) IN
         IF block # None
         THEN [st EXCEPT !.index = SetDefaultAppend(@, block[1], img_file)]
         ELSE [st EXCEPT !.log = @ \cup {<<"skip", img_file>>}]

\* images_by_block[block].sort(): the paths share the directory, so they
\* compare as the file names do
MonthlySortIndex(idx) == [b \in DOMAIN idx |-> 
        StableSort(idx[b], {p \in Range(idx[b]) \X Range(idx[b]) : StrLess(p[1], p[2])})]

\* extract_block_from_filename of merge_pdf_with_easyocr and of
\* insert_images_dry_riser_cp: re.match(r'^(\d{3})', filename)
easy_extract_block_from_filename(filename) ==
    IF DigitRun(filename, 1) >= 3 THEN Some(int(SubSeq(filename, 1, 3))) ELSE None

\* extract_block_from_filename of insert_images_dry_riser_nsc and _nse:
\* re.match(r'^(\d{3,})', filename), the whole leading run
table_extract_block_from_filename(filename) ==
    LET n == DigitRun(filename, 1) IN
    IF n >= 3 THEN Some(int(SubSeq(filename, 1, n))) ELSE None

\* L_RE.search(name), L_RE = r'_L(\d+)\b' with IGNORECASE: the digits of the
\* leftmost "_L<digits>" that a word boundary follows (the greedy run has to
\* end the name or be followed by a non-word character), or None
L_RE_search(name) ==
    LET at == {q \in 1..Len(name) :
                  /\ name[q] = "_"
                  /\ q + 2 <= Len(name)
                  /\ lower_char(name[q + 1]) = "l"
                  /\ DigitRun(name, q + 2) >= 1
                  /\ LET e == q + 2 + DigitRun(name, q + 2) IN
                        e > Len(name) \/ ~IsWordChar(name[e])}
    IN IF at = {} THEN None
       ELSE LET q == SetMin(at) IN
            Some(SubSeq(name, q + 2, q + 1 + DigitRun(name, q + 2)))

\* SEQ_RE.search(name), SEQ_RE = r'(?:_|-)(\d{1,3})(?=\D|$)': the digits of the
\* leftmost "_" or "-" followed by a run of one to three digits, or None
SEQ_RE_search(name) ==
    LET at == {q \in 1..Len(name) :
                  /\ name[q] \in {"_", "-"}
                  /\ DigitRun(name, q + 1) \in 1..3}
    IN IF at = {} THEN None
       ELSE LET q == SetMin(at) IN
            Some(SubSeq(name, q + 1, q + DigitRun(name, q + 1)))

NO_TOKEN == 9999

\* image_sort_key(name) = (lvl_val, seq_val, name.lower())
image_sort_key(name) ==
    LET lvl_match == L_RE_search(name)
        seq_match == SEQ_RE_search(name)
    IN <<IF lvl_match # None THEN int(lvl_match[1]) ELSE NO_TOKEN,
         IF seq_match # None THEN int(seq_match[1]) ELSE NO_TOKEN,
         lower(name)>>

\* image_sort_key(a) < image_sort_key(b), as Python compares the tuples
SortKeyLess(a, b) ==
    LET key1 == image_sort_key(a)
        key2 == image_sort_key(b)
    IN \/ key1[1] < key2[1]
       \/ key1[1] = key2[1] /\ key1[2] < key2[2]
       \/ key1[1] = key2[1] /\ key1[2] = key2[2] /\ StrLess(key1[3], key2[3])

\* the body of merge_pdf_with_easyocr's index loop
EasyAddFile(st, img) ==
    LET block == easy_extract_block_from_filename(img) IN
    IF block # None
    THEN [st EXCEPT !.index = SetDefaultAppend(@, block[1], img)]
    ELSE [st EXCEPT !.skipped = Append(@, img)]

\* images_by_block[block] = sorted(images_by_block[block], key=image_sort_key)
EasySortIndex(idx) == [b \in DOMAIN idx |-> 
        StableSort(idx[b], {p \in Range(idx[b]) \X Range(idx[b]) : SortKeyLess(p[1], p[2])})]

\* the report after the loop: one line per skipped file, or "all valid"
EasyReport(skipped) ==
    IF skipped # <<>> THEN {<<"skip", skipped[j]>> : j \in 1..Len(skipped)}
    ELSE {<<"all_valid">>}

\* the body of insert_images_dry_riser_cp's index loop: no else branch
CpAddFile(st, img) ==
    LET block == easy_extract_block_from_filename(img) IN
    IF block # None
    THEN [st EXCEPT !.index = SetDefaultAppend(@, block[1], img)]
    ELSE st

\* natsort's order (library code; default algorithm): a name is cut into runs
\* of digits, compared as numbers, and the text between them, compared as
\* strings; a name that starts with a digit has an empty first text
TextRun(s) ==
    LET ds == {j \in 1..Len(s) : isdigit(s[j])} IN
    IF ds = {} THEN Len(s) ELSE SetMin(ds) - 1

RECURSIVE NatLess(_, _)
NatLess(s, t) ==
    IF t = <<>> THEN FALSE
    ELSE IF s = <<>> THEN TRUE
    ELSE LET ts == TextRun(s)
             tt == TextRun(t)
         IN IF SubSeq(s, 1, ts) # SubSeq(t, 1, tt)
            THEN StrLess(SubSeq(s, 1, ts), SubSeq(t, 1, tt))
            ELSE LET s2 == SubSeq(s, ts + 1, Len(s))
                     t2 == SubSeq(t, tt + 1, Len(t))
                     ns == DigitRun(s2, 1)
                     nt == DigitRun(t2, 1)
                 IN IF t2 = <<>> THEN FALSE
                    ELSE IF s2 = <<>> THEN TRUE
                    ELSE IF int(SubSeq(s2, 1, ns)) # int(SubSeq(t2, 1, nt))
                         THEN int(SubSeq(s2, 1, ns)) < int(SubSeq(t2, 1, nt))
                         ELSE NatLess(SubSeq(s2, ns + 1, Len(s2)),
                                      SubSeq(t2, nt + 1, Len(t2)))

\* images_by_block[block] = natsorted(images_by_block[block])
CpSortIndex(idx) == [b \in DOMAIN idx |-> 
        StableSort(idx[b], {p \in Range(idx[b]) \X Range(idx[b]) : NatLess(p[1], p[2])})]

\* the body of the index loop of insert_images_dry_riser_nsc and _nse; the
\* lists are left in listing order
TableAddFile(st, img) ==
    LET block == table_extract_block_from_filename(img) IN
    IF block # None
    THEN [st EXCEPT !.index = SetDefaultAppend(@, block[1], img)]
    ELSE [st EXCEPT !.log = @ \cup {<<"skip", img>>}]

\* the loop body, the sort and the report of each script
AddFile(s, st, img, empty) ==
    CASE s = EASYOCR -> EasyAddFile(st, img)
      [] s = CP -> CpAddFile(st, img)
      [] s \in {NSC, NSE} -> TableAddFile(st, img)
      [] s = MONTHLY -> MonthlyAddFile(st, img, empty)

SortIndex(s, idx) ==
    CASE s = EASYOCR -> EasySortIndex(idx)
      [] s = CP -> CpSortIndex(idx)
      [] s \in {NSC, NSE} -> idx
      [] s = MONTHLY -> MonthlySortIndex(idx)

ReportAfterLoop(s, skipped) ==
    CASE s = EASYOCR -> EasyReport(skipped)
      [] s \in {CP, MONTHLY} -> {<<"loaded">>}
      [] s \in {NSC, NSE} -> {}

\* for img in image_files: ... of script s, on the locals of an index build:
\* the index, skipped_files, the lines printed
IndexLoop(s, files, empty) ==
    LET f[n \in 0..Len(files)] ==
            IF n = 0 THEN [index |-> <<>>, skipped |-> <<>>, log |-> {}]
            ELSE AddFile(s, f[n - 1], files[n], empty)
    IN f[Len(files)]

\* the ImageIndex main of merge_pdf_monthly builds from a listing
monthly_images_by_block(listing, empty) ==
    MonthlySortIndex(IndexLoop(MONTHLY, ImageFilesOf(listing), empty).index)

\* the ImageIndex main of merge_pdf_with_easyocr builds from a listing
easy_images_by_block(listing) ==
    EasySortIndex(IndexLoop(EASYOCR, ImageFilesOf(listing), {}).index)

(***************************************************************************)
(* The index build of every script, file by file.                          *)
(***************************************************************************)
MaxFiles == 3      \* entries of the image directory

\* "hosereel_115_a.jpg"
F_hosereel_115_a ==
    <<"h", "o", "s", "e", "r", "e", "e", "l", "_", "1", "1", "5", "_", "a",
      ".", "j", "p", "g">>

\* "hosereel_115_b.jpg"
F_hosereel_115_b ==
    <<"h", "o", "s", "e", "r", "e", "e", "l", "_", "1", "1", "5", "_", "b",
      ".", "j", "p", "g">>

\* "hosereel_115A_x.jpg"
F_hosereel_115A_x ==
    <<"h", "o", "s", "e", "r", "e", "e", "l", "_", "1", "1", "5", "A", "_",
      "x", ".", "j", "p", "g">>

\* "hosereel_116_a.jpg"
F_hosereel_116_a ==
    <<"h", "o", "s", "e", "r", "e", "e", "l", "_", "1", "1", "6", "_", "a",
      ".", "j", "p", "g">>

\* "1071_L2.jpg"
F_1071_L2 ==
    <<"1", "0", "7", "1", "_", "L", "2", ".", "j", "p", "g">>

\* "107_L1-3.png"
F_107_L1_3 ==
    <<"1", "0", "7", "_", "L", "1", "-", "3", ".", "p", "n", "g">>

\* "107_a.jpg"
F_107_a ==
    <<"1", "0", "7", "_", "a", ".", "j", "p", "g">>

\* "107_A.jpg"
F_107_A ==
    <<"1", "0", "7", "_", "A", ".", "j", "p", "g">>

\* "108-2.JPG"
F_108_2 ==
    <<"1", "0", "8", "-", "2", ".", "J", "P", "G">>

\* "ab_1.jpg"
F_ab_1 ==
    <<"a", "b", "_", "1", ".", "j", "p", "g">>

\* "notes.txt"
F_notes ==
    <<"n", "o", "t", "e", "s", ".", "t", "x", "t">>

\* the names an image directory may hold: a level token, a level and a
\* sequence token, two names that differ in case only, an upper-case
\* extension, a name without leading digits, a prefixed alphanumeric code, a
\* file that is no image
FileNames ==
    {F_1071_L2, F_107_L1_3, F_107_a, F_107_A, F_108_2, F_ab_1, F_hosereel_115A_x,
     F_notes}

\* os.listdir(image_dir): the names of the directory, each once, in any order
Listings ==
    {l \in UNION {[1..n -> FileNames] : n \in 0..MaxFiles} :
        \A a \in 1..Len(l) : \A b \in 1..Len(l) : l[a] = l[b] => a = b}

InitIndex ==
    /\ pc = "main"
    /\ script \in {EASYOCR, CP, NSC, NSE, MONTHLY}
    /\ images_by_block = <<>>
    /\ IdleIndex
    /\ bad = {}
    /\ cfg = DefaultConfig
    /\ blocks = <<>>
    /\ normalized = <<>>
    /\ reconciled = <<>>
    /\ k = 0
    /\ reader_pages = 0
    /\ page_blocks = <<>>
    /\ i = 0
    /\ writer = <<>>
    /\ collected = <<>>
    /\ outcome = <<>>
    /\ log = {}
    /\ ndocs = 0
    /\ IdleOcr
    /\ IdleRender

\* image_files = [f for f in os.listdir(image_dir) if ...]; images_by_block = {};
\* bad holds the files of 0 bytes, which only merge_pdf_monthly looks at here
Idx_List ==
    /\ pc = "main"
    /\ \E listing \in Listings :
         /\ image_files' = ImageFilesOf(listing)
         /\ bad' \in (IF script = MONTHLY THEN SUBSET Range(image_files') ELSE {{}})
    /\ images_by_block' = <<>>
    /\ skipped_files' = <<>>
    /\ i' = 0
    /\ pc' = "index_loop"
    /\ UNCHANGED <<script, ocrVars, renderVars, cfg, blocks, normalized, reconciled,
                   k, reader_pages, page_blocks, writer, collected, outcome, log,
                   ndocs>>

\* one iteration of for img in image_files
Idx_File ==
    /\ pc = "index_loop"
    /\ i < Len(image_files)
    /\ LET st == AddFile(script,
                         [index |-> images_by_block, skipped |-> skipped_files,
                          log |-> log],
                         image_files[i + 1], bad)
       IN /\ images_by_block' = st.index
          /\ skipped_files' = st.skipped
          /\ log' = st.log
    /\ i' = i + 1
    /\ UNCHANGED <<pc, script, image_files, ocrVars, renderVars, cfg, blocks,
                   normalized, reconciled, bad, k, reader_pages, page_blocks, writer,
                   collected, outcome, ndocs>>

\* after the loop: the per-block sort and the report lines of the script
Idx_Finish ==
    /\ pc = "index_loop"
    /\ i = Len(image_files)
    /\ images_by_block' = SortIndex(script, images_by_block)
    /\ log' = log \cup ReportAfterLoop(script, skipped_files)
    /\ pc' = "indexed"
    /\ UNCHANGED <<script, image_files, skipped_files, ocrVars, renderVars, cfg,
                   blocks, normalized, reconciled, bad, k, reader_pages, page_blocks,
                   i, writer, collected, outcome, ndocs>>

NextIndex ==
    \/ Idx_List
    \/ Idx_File
    \/ Idx_Finish

SpecIndex == InitIndex /\ [][NextIndex]_vars

(***************************************************************************)
(* image_to_pdf_page: the size and the position of the image on the page.  *)
(* merge_pdf_with_easyocr and insert_images_dry_riser_cp shrink with       *)
(* Image.thumbnail, merge_pdf_monthly scales to fit exactly.               *)
(***************************************************************************)
MaxImg == 6        \* longest side of a source image, in pixels
MaxPts == 3        \* longest side of a page, in points

DEFAULT_dpi == 150

\* int(points / 72.0 * dpi); for whole points that are no multiple of 12 the
\* float product is no whole number and int() is the exact floor
target_px(points) == (points * DEFAULT_dpi) \div 72

\* int(x) of a float x whose exact value is num/den: the floor, and where
\* num/den is a whole number also one less, since the rounded operations
\* (e.g. 35 / (7 / 3)) may land just below it
IntOfFloat(num, den) ==
    IF num % den = 0 THEN {num \div den, MaxOf((num \div den) - 1, 0)}
    ELSE {num \div den}

\* the scaling that fills the target box instead of fitting into it
monthly_new_sizes_Cover(w, h, tw, th) ==
    IF w * th > tw * h
    THEN {<<nw, th>> : nw \in IntOfFloat(th * w, h)}
    ELSE {<<tw, nh>> : nh \in IntOfFloat(tw * h, w)}

\* merge_pdf_monthly: img_ratio > target_ratio fits to the target width,
\* otherwise to the target height; (new_width, new_height)
monthly_new_sizes(w, h, tw, th) ==
    IF w * th > tw * h
    THEN {<<tw, nh>> : nh \in IntOfFloat(tw * h, w)}
    ELSE {<<nw, th>> : nw \in IntOfFloat(th * w, h)}

Abs(n) == IF n < 0 THEN 0 - n ELSE n

\* round_aspect of Pillow's Image.thumbnail (library code) for the number
\* num/den: max(min(floor, ceil, key=key), 1); key[n] is the fraction
\* <<numerator, denominator>>, and on equal keys, where min keeps the floor,
\* the float keys may fall either way
round_aspect(num, den, key) ==
    LET lo == num \div den
        hi == IF num % den = 0 THEN lo ELSE lo + 1
        closer(a, b) == key[a][1] * key[b][2] < key[b][1] * key[a][2]
        picked == IF closer(lo, hi) THEN {lo}
                  ELSE IF closer(hi, lo) THEN {hi} ELSE {lo, hi}
    IN {MaxOf(n, 1) : n \in picked}

\* img.thumbnail((x, y)): img.size afterwards.  An image that fits is left as
\* it is; otherwise aspect = width / height and the side that has to give is
\* rounded to the neighbour that keeps the aspect best:
\*   key=lambda n: abs(aspect - n / y)
\*   key=lambda n: 0 if n == 0 else abs(aspect - x / n)
\* (both keys written over the denominator h)
thumbnail_sizes(w, h, x, y) ==
    IF x >= w /\ y >= h THEN {<<w, h>>}
    ELSE IF x * h >= w * y
         THEN {<<nx, y>> : nx \in round_aspect(y * w, h,
                  [n \in 0..x |-> <<Abs(w * y - n * h), y>>])}
         ELSE {<<x, ny>> : ny \in round_aspect(x * h, w,
                  [n \in 0..y |-> IF n = 0 THEN <<0, 1>>
                                  ELSE <<Abs(w * n - x * h), n>>])}

\* offset = ((target_w - width) // 2, (target_h - height) // 2)
centre_offset(target, size) ==
    <<(target[1] - size[1]) \div 2, (target[2] - size[2]) \div 2>>

TargetOf(points) == <<target_px(points[1]), target_px(points[2])>>

\* what a call leaves behind: the page, or None after the except branch
Rendering(target, size, produced) ==
    [target |-> target, size |-> size,
     offset |-> IF produced THEN centre_offset(target, size) ELSE <<0, 0>>,
     page |-> IF produced THEN "page" ELSE "None"]

InitRender ==
    /\ pc = "render_start"
    /\ script \in {EASYOCR, CP, MONTHLY}
    /\ image_files = <<IF script = MONTHLY THEN F_hosereel_115_a ELSE F_107_a>>
    /\ skipped_files = <<>>
    /\ bad \in SUBSET Range(image_files)
    /\ img_size \in (1..MaxImg) \X (1..MaxImg)
    /\ page_size \in (1..MaxPts) \X (1..MaxPts)
    /\ rendered = NoRendering
    /\ images_by_block = <<>>
    /\ cfg = DefaultConfig
    /\ blocks = <<>>
    /\ normalized = <<>>
    /\ reconciled = <<>>
    /\ k = 0
    /\ reader_pages = 0
    /\ page_blocks = <<>>
    /\ i = 0
    /\ writer = <<>>
    /\ collected = <<>>
    /\ outcome = <<>>
    /\ log = {}
    /\ ndocs = 0
    /\ IdleOcr

\* image_to_pdf_page of merge_pdf_with_easyocr, image_to_pdf_page_safe of
\* insert_images_dry_riser_cp, on a readable image
Render_Thumbnail ==
    /\ pc = "render_start"
    /\ script \in {EASYOCR, CP}
    /\ image_files[1] \notin bad
    /\ LET target == TargetOf(page_size) IN
         \E size \in thumbnail_sizes(img_size[1], img_size[2], target[1], target[2]) :
            rendered' = Rendering(target, size, TRUE)
    /\ pc' = "rendered"
    /\ UNCHANGED <<indexVars, ocrVars, img_size, page_size, images_by_block, cfg,
                   blocks, normalized, reconciled, bad, k, reader_pages, page_blocks,
                   i, writer, collected, outcome, log, ndocs>>

\* image_to_pdf_page of merge_pdf_monthly on a readable image; img.resize
\* raises on a side of 0 pixels, which the except branch reports
Render_Fit ==
    /\ pc = "render_start"
    /\ script = MONTHLY
    /\ image_files[1] \notin bad
    /\ LET target == TargetOf(page_size) IN
         \E size \in monthly_new_sizes(img_size[1], img_size[2], target[1], target[2]) :
            /\ rendered' = Rendering(target, size, size[1] > 0 /\ size[2] > 0)
            /\ log' = IF size[1] > 0 /\ size[2] > 0 THEN log
                      ELSE log \cup {<<"skip", image_files[1]>>}
    /\ pc' = "rendered"
    /\ UNCHANGED <<indexVars, ocrVars, img_size, page_size, images_by_block, cfg,
                   blocks, normalized, reconciled, bad, k, reader_pages, page_blocks,
                   i, writer, collected, outcome, ndocs>>

\* a missing, empty or undecodable file: the except branch prints and returns None
Render_Skip ==
    /\ pc = "render_start"
    /\ image_files[1] \in bad
    /\ rendered' = Rendering(TargetOf(page_size), <<0, 0>>, FALSE)
    /\ log' = log \cup {<<"skip", image_files[1]>>}
    /\ pc' = "rendered"
    /\ UNCHANGED <<indexVars, ocrVars, img_size, page_size, images_by_block, cfg,
                   blocks, normalized, reconciled, bad, k, reader_pages, page_blocks,
                   i, writer, collected, outcome, ndocs>>

NextRender ==
    \/ Render_Thumbnail
    \/ Render_Fit
    \/ Render_Skip

SpecRender == InitRender /\ [][NextRender]_vars

(***************************************************************************)
(* Pages, rendering and the insertion loops shared by the scripts.         *)
(***************************************************************************)
Src(n) == <<"src", n>>          \* reader.pages[n]
Img(a) == <<"img", a>>          \* the page rendered from asset a
NonePage == <<"none">>          \* Python's None

Assets(b, n) == [j \in 1..n |-> <<b, j>>]

AllAssets(idx) == UNION {Range(idx[b]) : b \in DOMAIN idx}

\* image_to_pdf_page of merge_pdf_with_easyocr and merge_pdf_monthly: the
\* whole body is inside try/except Exception, a failure prints and returns None
image_to_pdf_page(a, badset) == IF a \in badset THEN NonePage ELSE Img(a)

\* the asset loop giving up at the first asset that fails
RECURSIVE InsertAssets_StopAtFailure(_, _)
InsertAssets_StopAtFailure(assets, badset) ==
    IF assets = <<>> THEN <<>>
    ELSE LET pdf_page == image_to_pdf_page(Head(assets), badset) IN
         IF pdf_page # NonePage
         THEN <<pdf_page>> \o InsertAssets_StopAtFailure(Tail(assets), badset)
         ELSE <<>>

\* for img_file in images_by_block[block]: add the page unless it is None
RECURSIVE InsertAssets(_, _)
InsertAssets(assets, badset) ==
    IF assets = <<>> THEN <<>>
    ELSE LET pdf_page == image_to_pdf_page(Head(assets), badset) IN
         (IF pdf_page # NonePage THEN <<pdf_page>> ELSE <<>>)
             \o InsertAssets(Tail(assets), badset)

\* for block in blocks: if block in images_by_block: ...
RECURSIVE InsertBlocks(_, _, _)
InsertBlocks(bs, idx, badset) ==
    IF bs = <<>> THEN <<>>
    ELSE (IF InIndex(idx, Head(bs)) THEN InsertAssets(idx[Head(bs)], badset) ELSE <<>>)
             \o InsertBlocks(Tail(bs), idx, badset)

(***************************************************************************)
(* merge_pdf_with_easyocr: OCR, noise filter, inline assembly.             *)
(***************************************************************************)
InlineIds == {107, 108, 109, 110}

InlineIndex(S, two) ==
    [b \in S |-> IF b = 108 /\ two THEN Assets(b, 2) ELSE Assets(b, 1)]

\* the image directories of the runs: none, one block, a run with a hole, all
InlineKeySets == {{}, {108}, {107, 108, 110}, InlineIds}

InlineIndexes == {InlineIndex(S, two) : S \in InlineKeySets, two \in BOOLEAN}

\* what OCR reads on one page: the 3-digit tokens in [100, 999], duplicates kept
PageStreams == {<<>>, <<108>>, <<107, 108, 110>>, <<109, 109, 108>>}

\* noise by frequency: the identifiers that occur at least once per page on
\* average, wherever they occur
GlobalNoise_ByFrequency(raw) ==
    IF raw = <<>> THEN {}
    ELSE {b \in UNION {Range(raw[j]) : j \in 1..Len(raw)} :
            Len(SelectSeq(Concat(raw), LAMBDA x : x = b)) >= Len(raw)}

\* global_noise = set.intersection(*page_sets) if page_sets else set()
GlobalNoise(raw) ==
    IF raw = <<>> THEN {}
    ELSE {b \in Range(raw[1]) : \A j \in 1..Len(raw) : b \in Range(raw[j])}

\* get_blocks_per_page_with_ocr, after recognition: remove the global noise
\* from every page, order and duplicates of the rest preserved
get_blocks_per_page_with_ocr(raw) ==
    [j \in 1..Len(raw) |-> SelectSeq(raw[j], LAMBDA b : b \notin GlobalNoise(raw))]

InitInline ==
    /\ pc = "main"
    /\ images_by_block \in InlineIndexes
    /\ bad \in SUBSET AllAssets(images_by_block)
    /\ ndocs \in 0..MaxDocs
    /\ cfg = DefaultConfig
    /\ blocks = <<>>
    /\ normalized = <<>>
    /\ reconciled = <<>>
    /\ k = 0
    /\ reader_pages = 0
    /\ page_blocks = <<>>
    /\ i = 0
    /\ writer = <<>>
    /\ collected = <<>>
    /\ outcome = <<>>
    /\ log = {}
    /\ script = EASYOCR
    /\ IdleIndex
    /\ IdleOcr
    /\ IdleRender

\* if not pdf_files: print and return
Easy_Main ==
    /\ pc = "main"
    /\ \/ /\ ndocs = 0
          /\ pc' = "done"
          /\ log' = log \cup {<<"no_pdf">>}
       \/ /\ ndocs > 0
          /\ pc' = "next_doc"
          /\ log' = log
    /\ UNCHANGED <<indexVars, ocrVars, renderVars, images_by_block, cfg, blocks, normalized, reconciled, bad, k,
                   reader_pages, page_blocks, i, writer, collected, outcome, ndocs>>

\* try: blocks_per_page_ocr = get_blocks_per_page_with_ocr(pdf_path);
\*      reader = PdfReader(pdf_path); writer = PdfWriter()
\* The rasterizer's page images and the reader's pages are counted by two
\* libraries: the loop itself guards against their disagreeing.
Easy_StartDoc ==
    /\ pc = "next_doc"
    /\ k < ndocs
    /\ \E n \in 0..MaxPages, np \in 0..MaxPages :
         \E raw \in [1..n -> PageStreams] :
            /\ raw_blocks_per_page' = raw
            /\ global_noise' = GlobalNoise(raw)
            /\ page_blocks' = get_blocks_per_page_with_ocr(raw)
            /\ reader_pages' = np
    /\ writer' = <<>>
    /\ i' = 0
    /\ pc' = "pages"
    /\ UNCHANGED <<indexVars, renderVars, images_by_block, cfg, blocks, normalized, reconciled, bad, k,
                   collected, outcome, log, ndocs>>

\* one iteration of the page loop
Easy_Page ==
    /\ pc = "pages"
    /\ i < Len(page_blocks)
    /\ i < reader_pages
    /\ normalized' = normalize_page_blocks(page_blocks[i + 1], images_by_block, cfg)
    /\ reconciled' = dedup_and_sort_desc(normalized')
    /\ writer' = Append(writer, Src(i)) \o InsertBlocks(reconciled', images_by_block, bad)
    /\ i' = i + 1
    /\ UNCHANGED <<indexVars, ocrVars, renderVars, pc, images_by_block, cfg, blocks, bad, k, reader_pages,
                   page_blocks, collected, outcome, log, ndocs>>

\* the loop is over (recognition data exhausted, or break): writer.write(f)
Easy_Save ==
    /\ pc = "pages"
    /\ (i >= Len(page_blocks) \/ i >= reader_pages)
    /\ outcome' = Append(outcome, "written")
    /\ pc' = "saved"
    /\ UNCHANGED <<indexVars, ocrVars, renderVars, images_by_block, cfg, blocks, normalized, reconciled, bad, k,
                   reader_pages, page_blocks, i, writer, collected, log, ndocs>>

\* the for loop takes the next pdf_filename; the finished document's locals
\* are dead from here on
Easy_NextDoc ==
    /\ pc = "saved"
    /\ k' = k + 1
    /\ pc' = "next_doc"
    /\ normalized' = <<>>
    /\ reconciled' = <<>>
    /\ reader_pages' = 0
    /\ page_blocks' = <<>>
    /\ i' = 0
    /\ raw_blocks_per_page' = <<>>
    /\ global_noise' = {}
    /\ writer' = <<>>
    /\ UNCHANGED <<indexVars, renderVars, images_by_block, cfg, blocks, bad, collected, outcome, log, ndocs>>

\* except Exception as e: print, traceback; the for loop goes on.  Raised by
\* recognition or PdfReader (at "next_doc"), by the page loop or by the write.
Easy_DocError ==
    /\ pc \in {"next_doc", "pages"}
    /\ k < ndocs
    /\ outcome' = Append(outcome, "error")
    /\ log' = log \cup {<<"error", k>>}
    /\ k' = k + 1
    /\ pc' = "next_doc"
    /\ normalized' = <<>>
    /\ reconciled' = <<>>
    /\ reader_pages' = 0
    /\ page_blocks' = <<>>
    /\ i' = 0
    /\ raw_blocks_per_page' = <<>>
    /\ global_noise' = {}
    /\ writer' = <<>>
    /\ UNCHANGED <<indexVars, renderVars, images_by_block, cfg, blocks, bad, collected, ndocs>>

Easy_Done ==
    /\ pc = "next_doc"
    /\ k = ndocs
    /\ pc' = "done"
    /\ UNCHANGED <<indexVars, ocrVars, renderVars, images_by_block, cfg, blocks, normalized, reconciled, bad, k,
                   reader_pages, page_blocks, i, writer, collected, outcome, log, ndocs>>

NextInline ==
    \/ Easy_Main
    \/ Easy_StartDoc
    \/ Easy_Page
    \/ Easy_Save
    \/ Easy_NextDoc
    \/ Easy_DocError
    \/ Easy_Done

SpecInline == InitInline /\ [][NextInline]_vars

(***************************************************************************)
(* merge_pdf_monthly: persisted recognition data, trailing assembly.       *)
(* The keys of its ImageIndex are the strings extract_block_from_filename  *)
(* returns ("115", "115A"); the persisted clean_blocks are integers.       *)
(***************************************************************************)
MonthlyIds == {115, 116}

\* the image directories of the runs: empty, two files of block 115 listed in
\* reverse, a file of 115A with one of 116, one file each of 115 and 116
MonthlyListings ==
    {<<>>,
     <<F_hosereel_115_b, F_hosereel_115_a>>,
     <<F_hosereel_115A_x, F_hosereel_116_a>>,
     <<F_hosereel_115_a, F_hosereel_116_a>>}

\* clean_blocks as make_ocr_blocklist persists them: unique, ascending
CleanLists == {SortedAsc(S) : S \in SUBSET MonthlyIds}

\* blocks = [str(b) for b in page_info["clean_blocks"]]
StrBlocks(clean) == [j \in 1..Len(clean) |-> str(clean[j])]

\* the entry of pages beyond the data taken from the last entry
PageInfo_Clamped(data, n) ==
    IF Len(data) = 0 THEN <<>>
    ELSE IF n < Len(data) THEN <<data[n + 1]>> ELSE <<data[Len(data)]>>

\* if i < len(data["pages"]): page_info = data["pages"][i]  (zero or one entry)
PageInfo(data, n) == IF n < Len(data) THEN <<data[n + 1]>> ELSE <<>>

InitMonthly ==
    /\ pc = "main"
    /\ script = MONTHLY
    /\ image_files \in MonthlyListings
    /\ skipped_files = <<>>
    /\ images_by_block = monthly_images_by_block(image_files, {})
    /\ IdleOcr
    /\ IdleRender
    /\ bad \in SUBSET AllAssets(images_by_block)
    /\ ndocs \in 0..MaxDocs
    /\ cfg = DefaultConfig
    /\ blocks = <<>>
    /\ normalized = <<>>
    /\ reconciled = <<>>
    /\ k = 0
    /\ reader_pages = 0
    /\ page_blocks = <<>>
    /\ i = 0
    /\ writer = <<>>
    /\ collected = <<>>
    /\ outcome = <<>>
    /\ log = {}

\* if not pdf_files: print and return
Month_Main ==
    /\ pc = "main"
    /\ \/ /\ ndocs = 0
          /\ pc' = "done"
          /\ log' = log \cup {<<"no_pdf">>}
       \/ /\ ndocs > 0
          /\ pc' = "next_doc"
          /\ log' = log
    /\ UNCHANGED <<indexVars, ocrVars, renderVars, images_by_block, cfg, blocks, normalized, reconciled, bad, k,
                   reader_pages, page_blocks, i, writer, collected, outcome, ndocs>>

\* if not os.path.isfile(json_path): print, continue
Month_SkipNoJson ==
    /\ pc = "next_doc"
    /\ k < ndocs
    /\ outcome' = Append(outcome, "skipped")
    /\ log' = log \cup {<<"json_not_found", k>>}
    /\ k' = k + 1
    /\ UNCHANGED <<indexVars, ocrVars, renderVars, pc, images_by_block, cfg, blocks, normalized, reconciled, bad,
                   reader_pages, page_blocks, i, writer, collected, ndocs>>

\* data = json.load(f); reader = PdfReader(pdf_path); final_writer = PdfWriter();
\* all_collected_image_pages = []
Month_StartDoc ==
    /\ pc = "next_doc"
    /\ k < ndocs
    /\ \E n \in 0..MaxPages, np \in 0..MaxPages :
         \E data \in [1..n -> CleanLists] :
            /\ page_blocks' = data
            /\ reader_pages' = np
    /\ writer' = <<>>
    /\ collected' = <<>>
    /\ i' = 0
    /\ pc' = "pages"
    /\ UNCHANGED <<indexVars, ocrVars, renderVars, images_by_block, cfg, blocks, normalized, reconciled, bad, k,
                   outcome, log, ndocs>>

\* the page loop with the images appended right after their page
Month_Page_Inline ==
    /\ pc = "pages"
    /\ i < reader_pages
    /\ LET info == PageInfo(page_blocks, i) IN
         IF info # <<>>
         THEN /\ writer' = Append(writer, Src(i))
                              \o InsertBlocks(StrBlocks(info[1]), images_by_block, bad)
              /\ log' = log
         ELSE /\ writer' = Append(writer, Src(i))
              /\ log' = log \cup {<<"no_json_entry", k, i>>}
    /\ i' = i + 1
    /\ UNCHANGED <<indexVars, ocrVars, renderVars, pc, images_by_block, cfg, blocks, normalized, reconciled, bad, k,
                   reader_pages, page_blocks, collected, outcome, ndocs>>

\* first pass, one iteration: add the original page, queue its images
Month_Page ==
    /\ pc = "pages"
    /\ i < reader_pages
    /\ writer' = Append(writer, Src(i))
    /\ LET info == PageInfo(page_blocks, i) IN
         IF info # <<>>
         THEN /\ collected' = collected
                                 \o InsertBlocks(StrBlocks(info[1]), images_by_block, bad)
              /\ log' = log
         ELSE /\ collected' = collected
              /\ log' = log \cup {<<"no_json_entry", k, i>>}
    /\ i' = i + 1
    /\ UNCHANGED <<indexVars, ocrVars, renderVars, pc, images_by_block, cfg, blocks, normalized, reconciled, bad, k,
                   reader_pages, page_blocks, outcome, ndocs>>

\* second pass: append the collected image pages; final_writer.write(f)
Month_Save ==
    /\ pc = "pages"
    /\ i = reader_pages
    /\ writer' = writer \o collected
    /\ outcome' = Append(outcome, "written")
    /\ pc' = "saved"
    /\ UNCHANGED <<indexVars, ocrVars, renderVars, images_by_block, cfg, blocks, normalized, reconciled, bad, k,
                   reader_pages, page_blocks, i, collected, log, ndocs>>

\* the for loop takes the next pdf_filename
Month_NextDoc ==
    /\ pc = "saved"
    /\ k' = k + 1
    /\ pc' = "next_doc"
    /\ reader_pages' = 0
    /\ page_blocks' = <<>>
    /\ i' = 0
    /\ writer' = <<>>
    /\ collected' = <<>>
    /\ UNCHANGED <<indexVars, ocrVars, renderVars, images_by_block, cfg, blocks, normalized, reconciled, bad,
                   outcome, log, ndocs>>

\* No try/except surrounds the loop body: an exception of json.load, of
\* data["pages"], of PdfReader, of a page access or of the write leaves main.
Month_Uncaught ==
    /\ pc \in {"next_doc", "pages"}
    /\ k < ndocs
    /\ pc' = "crashed"
    /\ log' = log \cup {<<"traceback", k>>}
    /\ UNCHANGED <<indexVars, ocrVars, renderVars, images_by_block, cfg, blocks, normalized, reconciled, bad, k,
                   reader_pages, page_blocks, i, writer, collected, outcome, ndocs>>

Month_Done ==
    /\ pc = "next_doc"
    /\ k = ndocs
    /\ pc' = "done"
    /\ UNCHANGED <<indexVars, ocrVars, renderVars, images_by_block, cfg, blocks, normalized, reconciled, bad, k,
                   reader_pages, page_blocks, i, writer, collected, outcome, log, ndocs>>

NextMonthly ==
    \/ Month_Main
    \/ Month_SkipNoJson
    \/ Month_StartDoc
    \/ Month_Page
    \/ Month_Save
    \/ Month_NextDoc
    \/ Month_Uncaught
    \/ Month_Done

SpecMonthly == InitMonthly /\ [][NextMonthly]_vars

(***************************************************************************)
(* insert_images_dry_riser_nsc / insert_images_dry_riser_nse: one PDF, the *)
(* blocks of each page from the hardcoded BLOCKS_PER_PAGE.                 *)
(***************************************************************************)
BLOCKS_PER_PAGE_NSC ==
    << <<602, 603, 604, 605, 606, 607, 609, 610>>,
       <<611, 612, 613, 614, 615, 617, 618, 619>>,
       <<632, 633, 634, 635, 636, 637, 638, 639>>,
       <<640, 641, 642, 643, 644, 645, 646, 647>>,
       <<651, 652, 653, 654, 655, 657, 658, 660>>,
       <<661, 662, 663, 664, 665, 666, 671, 671>>,
       <<671, 672, 672, 672, 673, 673, 673, 673>>,
       <<674, 674, 674, 675, 675, 675, 675, 676>>,
       <<676, 676, 676, 677, 677, 677, 701, 701>>,
       <<703, 704, 706, 707, 709, 710, 712, 713>>,
       <<714, 715, 716, 717, 718, 719, 720, 721>>,
       <<722, 723, 724, 725, 726, 727, 728, 729>>,
       <<730, 733, 734, 735, 736, 737, 738, 739>>,
       <<740, 741, 742, 745, 746, 749, 750, 751>>,
       <<752, 754, 755, 756, 757, 758, 759, 760>>,
       <<762, 764, 765, 766, 768, 770, 771, 772>>,
       <<773, 774, 926, 927, 928, 930, 931, 932>>,
       <<935>> >>

BLOCKS_PER_PAGE_NSE ==
    << <<201, 202, 203, 204, 205, 208, 209, 210>>,
       <<211, 211, 212, 212, 213, 214, 215, 216, 217, 218>>,
       <<219, 220, 221, 222, 223, 224, 225, 227>>,
       <<228, 229, 231, 232, 234, 235, 236, 237>>,
       <<238, 240, 241, 242, 243, 244, 245, 246>>,
       <<247, 249, 250, 253, 254, 255, 257, 259>>,
       <<260, 262, 263, 264, 269, 269, 296, 296>>,
       <<297, 298, 299, 302, 303, 304, 305, 306>>,
       <<308, 308, 309, 310, 311, 312, 314, 320, 321>>,
       <<322, 323, 324, 325, 326, 327, 328, 329>>,
       <<330, 331, 332, 342, 342, 342, 342, 343>>,
       <<345, 346, 347, 347, 347, 348, 348, 348>>,
       <<348, 349, 350, 351, 352, 353, 354, 355>>,
       <<356, 357, 359, 360, 362, 363, 365, 366>>,
       <<367, 315, 315, 315, 315, 316, 316, 316>>,
       <<317, 317, 317, 317, 318, 318, 318, 333>>,
       <<333, 333, 333, 333, 334, 334, 334, 334>>,
       <<334, 335, 335, 335, 336, 336, 336, 381>>,
       <<381, 381, 381, 382, 382, 382, 383, 383>>,
       <<384, 384>> >>

\* the image directories of the runs
TableKeySets == {{}, {602}, {603, 671}, {201, 211}, {602, 935, 384}}

TableIndexes == {[b \in S |-> Assets(b, 1)] : S \in TableKeySets}

\* image_to_pdf_page of the table scripts: img2pdf.convert and PdfReader with
\* no try/except; a failure is an exception raised to the caller
RaisedPage == <<"raise">>

table_image_to_pdf_page(a, badset) == IF a \in badset THEN RaisedPage ELSE Img(a)

\* the files the page loop renders for one page, in order:
\* for block in blocks: if block in images_by_block: for img_file in ...
FilesOfPage(bs, idx) ==
    Concat([j \in 1..Len(bs) |-> IF InIndex(idx, bs[j]) THEN idx[bs[j]] ELSE <<>>])

\* writer.add_page(image_to_pdf_page(img_path)) file by file, up to the first
\* exception: the pages added, and whether the last call raised
RECURSIVE AddPagesUntilRaise(_, _)
AddPagesUntilRaise(files, badset) ==
    IF files = <<>> THEN [pages |-> <<>>, raised |-> <<>>]
    ELSE LET page == table_image_to_pdf_page(Head(files), badset) IN
         IF page = RaisedPage
         THEN [pages |-> <<>>, raised |-> <<Head(files)>>]
         ELSE LET rest == AddPagesUntilRaise(Tail(files), badset)
              IN [pages |-> <<page>> \o rest.pages, raised |-> rest.raised]

InitTable ==
    /\ pc = "main"
    /\ script \in {NSC, NSE}
    /\ page_blocks = (IF script = NSC THEN BLOCKS_PER_PAGE_NSC ELSE BLOCKS_PER_PAGE_NSE)
    /\ images_by_block \in TableIndexes
    /\ bad \in SUBSET AllAssets(images_by_block)
    /\ ndocs = 1
    /\ cfg = DefaultConfig
    /\ blocks = <<>>
    /\ normalized = <<>>
    /\ reconciled = <<>>
    /\ k = 0
    /\ reader_pages = 0
    /\ i = 0
    /\ writer = <<>>
    /\ collected = <<>>
    /\ outcome = <<>>
    /\ log = {}
    /\ IdleIndex
    /\ IdleOcr
    /\ IdleRender

\* reader = PdfReader(pdf_file); writer = PdfWriter(); the page-count warning
Table_Open ==
    /\ pc = "main"
    /\ \E np \in 0..MaxPdfPages :
         /\ reader_pages' = np
         /\ log' = IF np # Len(page_blocks) THEN log \cup {<<"page_count_warning">>}
                   ELSE log
    /\ pc' = "pages"
    /\ UNCHANGED <<indexVars, ocrVars, renderVars, images_by_block, cfg, blocks, normalized, reconciled, bad, k,
                   page_blocks, i, writer, collected, outcome, ndocs>>

\* one iteration of for i in range(min(total_pages_in_pdf, total_pages_defined))
Table_Page ==
    /\ pc = "pages"
    /\ i < MinOf(reader_pages, Len(page_blocks))
    /\ LET added == AddPagesUntilRaise(
                        FilesOfPage(page_blocks[i + 1], images_by_block), bad) IN
         /\ writer' = Append(writer, Src(i)) \o added.pages
         /\ IF added.raised = <<>>
            THEN /\ i' = i + 1
                 /\ pc' = pc
                 /\ log' = log
            ELSE /\ i' = i
                 /\ pc' = "crashed"
                 /\ log' = log \cup {<<"traceback_render", added.raised[1]>>}
    /\ UNCHANGED <<indexVars, ocrVars, renderVars, images_by_block, cfg, blocks, normalized, reconciled, bad, k,
                   reader_pages, page_blocks, collected, outcome, ndocs>>

\* with open(output_file, "wb") as f: writer.write(f)
Table_Save ==
    /\ pc = "pages"
    /\ i = MinOf(reader_pages, Len(page_blocks))
    /\ outcome' = Append(outcome, "written")
    /\ pc' = "done"
    /\ UNCHANGED <<indexVars, ocrVars, renderVars, images_by_block, cfg, blocks, normalized, reconciled, bad, k,
                   reader_pages, page_blocks, i, writer, collected, log, ndocs>>

\* PdfReader(pdf_file) or the write raises: nothing catches it
Table_Uncaught ==
    /\ \/ pc = "main"
       \/ pc = "pages" /\ i = MinOf(reader_pages, Len(page_blocks))
    /\ pc' = "crashed"
    /\ log' = log \cup {<<"traceback", k>>}
    /\ UNCHANGED <<indexVars, ocrVars, renderVars, images_by_block, cfg, blocks, normalized, reconciled, bad, k,
                   reader_pages, page_blocks, i, writer, collected, outcome, ndocs>>

NextTable ==
    \/ Table_Open
    \/ Table_Page
    \/ Table_Save
    \/ Table_Uncaught

SpecTable == InitTable /\ [][NextTable]_vars

(***************************************************************************)
(* Claims about the reconciler (checked under SpecNorm).                   *)
(***************************************************************************)
NormReturned == pc \in {"normalized", "reconciled"}

\* the distinct survivors: the input identifiers that are keys of the ImageIndex
Survivors == Range(blocks) \cap DOMAIN images_by_block

BestSet == Range(BestOf(blocks, images_by_block, cfg))

FillCondition ==
    LET span == SetMax(BestSet) - SetMin(BestSet) IN
    /\ Cardinality(BestSet) >= cfg.min_present_for_fill
    /\ \/ span <= cfg.coverage_window
       \/ Cardinality(BestSet) * cfg.ratio_den >= cfg.ratio_num * Cardinality(Survivors)

\* C1: gap-fill decision. With best the selected cluster, span = max - min and
\* coverage = |best| / |distinct survivors|: if |best| >= min_present_for_fill
\* and (span <= coverage_window or coverage >= coverage_ratio) the result is
\* exactly the catalog identifiers between min(best) and max(best), each once;
\* otherwise the result is best unchanged. A lone survivor is returned as it
\* is at the defaults, and the stream [107,107,109,108,300,107] with catalog
\* {107,108,109} reconciles to [109,108,107].
C1_GapFillDecision ==
    /\ (NormReturned /\ Survivors # {}) =>
          IF FillCondition
          THEN /\ Range(normalized) =
                    {b \in DOMAIN images_by_block :
                        SetMin(BestSet) <= b /\ b <= SetMax(BestSet)}
               /\ Len(normalized) = Cardinality(Range(normalized))
          ELSE normalized = BestOf(blocks, images_by_block, cfg)
    /\ (NormReturned /\ cfg = DefaultConfig /\ Cardinality(Survivors) = 1) =>
          normalized = <<SetMin(Survivors)>>
    /\ (pc = "reconciled" /\ blocks = ExampleStream /\ cfg = DefaultConfig
            /\ DOMAIN images_by_block = {107, 108, 109}) =>
          reconciled = <<109, 108, 107>>

\* C1 witness: the fill condition holds only through the coverage ratio (the
\* span exceeds the window) and the fill added an identifier OCR never produced.
C1_Witness ==
    /\ pc = "normalized"
    /\ Survivors # {}
    /\ FillCondition
    /\ SetMax(BestSet) - SetMin(BestSet) > cfg.coverage_window
    /\ \E b \in Range(normalized) : b \notin Range(blocks)

\* C2: the block list used for insertion, dedup_and_sort_desc of what
\* normalize_page_blocks returned, is strictly descending (hence without
\* duplicates) and holds exactly the identifiers normalize_page_blocks
\* returned, in the gap-filled and in the not-filled branch.
C2_StrictlyDescending ==
    pc = "reconciled" =>
        /\ \A j \in 1..(Len(reconciled) - 1) : reconciled[j] > reconciled[j + 1]
        /\ Range(reconciled) = Range(normalized)

\* C2 witness: a gap-filled page of at least three blocks, reordered.
C2_Witness ==
    /\ pc = "reconciled"
    /\ Survivors # {}
    /\ FillCondition
    /\ Len(reconciled) >= 3
    /\ reconciled # normalized

\* C3: every identifier normalize_page_blocks returns is a key of the
\* ImageIndex, in the fill branch and in the verbatim branch, and the result
\* is empty when no input identifier is a key of the ImageIndex.
C3_OnlyCatalogIds ==
    NormReturned =>
        /\ Range(normalized) \subseteq DOMAIN images_by_block
        /\ (Survivors = {} => normalized = <<>>)

\* C3 witness: a gap-fill over a range that holds an identifier absent from
\* the catalog, which the fill skipped while adding a catalog one.
C3_Witness ==
    /\ pc = "normalized"
    /\ Survivors # {}
    /\ FillCondition
    /\ \E b \in Range(normalized) : b \notin Range(blocks)
    /\ \E c \in Ids : /\ c \notin DOMAIN images_by_block
                      /\ SetMin(BestSet) < c /\ c < SetMax(BestSet)

(***************************************************************************)
(* What an assembly is expected to hold, stated over whole documents.      *)
(***************************************************************************)
\* the image pages of one page: its blocks in the given order, each block's
\* assets in ImageIndex order, the assets in skip left out
ImagePagesOf(bs, assetIdx, skip) ==
    Concat([j \in 1..Len(bs) |->
              IF bs[j] \in DOMAIN assetIdx
              THEN LET good == SelectSeq(assetIdx[bs[j]], LAMBDA a : a \notin skip)
                   IN [m \in 1..Len(good) |-> Img(good[m])]
              ELSE <<>>])

\* the blocks of page p (1-based) of the OCR pipeline, reconciled against keyIdx
ReconciledOf(data, p, keyIdx) ==
    IF p <= Len(data)
    THEN dedup_and_sort_desc(normalize_page_blocks(data[p], keyIdx, DefaultConfig))
    ELSE <<>>

\* source pages 0..n-1, each followed by its image pages
InlineOutput(data, n, keyIdx, assetIdx, skip) ==
    Concat([p \in 1..n |->
              <<Src(p - 1)>> \o ImagePagesOf(ReconciledOf(data, p, keyIdx), assetIdx, skip)])

\* the ImageIndex as it would be built without asset a: a block is a key
\* only if a file of it was listed
IndexWithout(idx, a) ==
    LET keep == {b \in DOMAIN idx : \E x \in Range(idx[b]) : x # a}
    IN [b \in keep |-> SelectSeq(idx[b], LAMBDA x : x # a)]

\* the ImageIndex with the assets in skip taken out of their blocks' sequences,
\* every block staying a key
IndexMinus(idx, skip) ==
    [b \in DOMAIN idx |-> SelectSeq(idx[b], LAMBDA x : x \notin skip)]

\* C4: inline policy of merge_pdf_with_easyocr. The written output is, for
\* each source page i in original order, page i followed by the successfully
\* rendered image pages of page i (blocks in reconciled order, assets in
\* ImageIndex order), before page i+1; the first output page is a source page,
\* a page without matches contributes only itself, and two source pages of
\* which page 0 matches [A,B] and page 1 nothing give [page0, A, B, page1].
C4_InlineEveryDocument ==
    pc = "saved" =>
        /\ writer = InlineOutput(page_blocks, reader_pages, images_by_block,
                                 images_by_block, bad)
        /\ (writer # <<>> => writer[1] = Src(0))

\* C7: with exactly one asset failing to render, the assembled output equals
\* the output produced with that asset absent from the ImageIndex (a block
\* none of whose files is listed is no key of the index).
C7_AsIfAbsentFromIndex ==
    (pc = "saved" /\ Cardinality(bad) = 1) =>
        LET a == CHOOSE x \in bad : TRUE
            idx == IndexWithout(images_by_block, a)
        IN writer = InlineOutput(page_blocks, MinOf(Len(page_blocks), reader_pages),
                                 idx, idx, {})

\* C7 (amended): image_to_pdf_page raises nothing on a failing asset and the
\* assembled output equals the output produced with every failing asset taken
\* out of its block's asset sequence while the block stays a key of the
\* ImageIndex: the remaining assets of the block, the later blocks of the page
\* and the later source pages are emitted in order.
C7_FailedAssetOmitted ==
    pc = "saved" =>
        writer = InlineOutput(page_blocks, MinOf(Len(page_blocks), reader_pages),
                              images_by_block, IndexMinus(images_by_block, bad), {})

\* C7 witness: the first asset of block 108 fails; the second asset of 108,
\* the later block 107 and the next source page are in the written output.
C7_Witness ==
    /\ pc = "saved"
    /\ bad = {<<108, 1>>}
    /\ \E j \in 1..Len(writer) : /\ writer[j] = Img(<<108, 2>>)
                                 /\ j > 1
                                 /\ writer[j - 1] = Img(<<109, 1>>)
                                 /\ j + 2 <= Len(writer)
                                 /\ writer[j + 1] = Img(<<107, 1>>)
                                 /\ writer[j + 2] = Src(1)

IsSrc(page) == page[1] = "src"

IsImg(page) == page[1] = "img"

SourcePages(n) == [j \in 1..n |-> Src(j - 1)]

\* the image pages page p (1-based) of merge_pdf_monthly discovers
DiscoveredOn(data, p, idx, skip) ==
    IF p <= Len(data) THEN ImagePagesOf(StrBlocks(data[p]), idx, skip) ELSE <<>>

\* C5: trailing policy of merge_pdf_monthly. The written output is all source
\* pages in original order followed by all collected image pages in the order
\* they were discovered (page index ascending, then the page's block order,
\* then the block's asset order); no image page precedes a source page.
C5_TrailingOutput ==
    pc = "saved" =>
        /\ writer = SourcePages(reader_pages)
                      \o Concat([p \in 1..reader_pages |->
                                   DiscoveredOn(page_blocks, p, images_by_block, bad)])
        /\ \A j \in 1..Len(writer) : \A m \in 1..Len(writer) :
              (IsImg(writer[j]) /\ IsSrc(writer[m])) => m < j

\* C5 witness: two source pages, page 0 matches [A, B], page 1 matches
\* nothing, and the output is [page0, page1, A, B].
C5_Witness ==
    /\ pc = "saved"
    /\ page_blocks = <<<<115>>, <<116>>>>
    /\ reader_pages = 2
    /\ writer = <<Src(0), Src(1), Img(F_hosereel_115_a), Img(F_hosereel_115_b)>>

\* C6: in every assembly variant and for every combination of source page
\* count and recognition-data page count, the original pages in the written
\* output are exactly the source document's pages, each once, in order.
C6_SourcePagesPreserved ==
    (pc \in {"saved", "done"} /\ outcome # <<>> /\ Last(outcome) = "written") =>
        SelectSeq(writer, IsSrc) = SourcePages(reader_pages)

\* C8: in the hardcoded-table scripts a failure while rendering one image
\* asset is isolated and skipped: it never leaves main as an exception, the
\* remaining assets and source pages are appended and the output is written.
C8_RenderFailureIsolated ==
    \A a \in bad : ~(pc = "crashed" /\ <<"traceback_render", a>> \in log)

\* C9: in every multi-document pipeline an error raised while processing
\* document k is caught at the document boundary and reported, and every
\* later document of the batch is still processed: when the script ends,
\* every document of the batch has been dealt with.
C9_BatchNeverAborted ==
    pc \in {"done", "crashed"} => Len(outcome) = ndocs

\* C10: schema mismatch in merge_pdf_monthly. When the persisted data has a
\* different number of page entries than the document, the document is still
\* written with every source page; the pages inside the overlap use their
\* persisted clean_blocks, the source pages beyond the data contribute no
\* image page and get a notice, and entries beyond the last page are ignored.
C10_SchemaMismatch ==
    (pc = "saved" /\ Len(page_blocks) # reader_pages) =>
        /\ Last(outcome) = "written"
        /\ SelectSeq(writer, IsSrc) = SourcePages(reader_pages)
        /\ SelectSeq(writer, IsImg) =
              Concat([p \in 1..MinOf(reader_pages, Len(page_blocks)) |->
                        ImagePagesOf(StrBlocks(page_blocks[p]), images_by_block, bad)])
        /\ \A p \in 0..(reader_pages - 1) :
              (<<"no_json_entry", k, p>> \in log) <=> (p >= Len(page_blocks))

\* C10 witness: two source pages, one persisted entry whose blocks match an
\* image; the second page is kept with a notice and without images.
C10_Witness ==
    /\ pc = "saved"
    /\ reader_pages = 2
    /\ Len(page_blocks) = 1
    /\ \E j \in 1..Len(writer) : IsImg(writer[j])
    /\ <<"no_json_entry", k, 1>> \in log

(***************************************************************************)
(* Claims about block codes and the ImageIndex.                            *)
(***************************************************************************)
\* the base numeric BlockId of a block code: the value of its leading digits
BaseBlockId(code) == int(SubSeq(code, 1, DigitRun(code, 1)))

\* C11: alphanumeric block codes normalize to their base numeric BlockId for
\* matching. In merge_pdf_monthly an image whose file name carries the code
\* 115A is matched to a page whose clean_blocks contains 115: every readable
\* image of the ImageIndex whose block code has the base number of a block of
\* a page with recognition data is in the written output.
C11_AlphanumericMatchesBase ==
    pc = "saved" =>
        \A code \in DOMAIN images_by_block :
            \A p \in 1..MinOf(reader_pages, Len(page_blocks)) :
                BaseBlockId(code) \in Range(page_blocks[p]) =>
                    \A a \in Range(images_by_block[code]) \ bad :
                        Img(a) \in Range(writer)

\* a file the running script finds no block for
Unmatched(f) ==
    CASE script \in {EASYOCR, CP} -> easy_extract_block_from_filename(f) = None
      [] script \in {NSC, NSE} -> table_extract_block_from_filename(f) = None
      [] script = MONTHLY -> monthly_extract_block_from_filename(f) = None

\* C12: in every script that builds an ImageIndex, an image file whose name
\* has no qualifying leading digit run is under no block of the index and a
\* skip notice naming the file has been reported when the index is built.
C12_UnmatchedReported ==
    pc = "indexed" =>
        \A f \in Range(image_files) :
            Unmatched(f) =>
                /\ f \notin AllAssets(images_by_block)
                /\ <<"skip", f>> \in log \/ <<"skip_empty", f>> \in log

(***************************************************************************)
(* Claims about the noise filter (checked under SpecInline).               *)
(***************************************************************************)
\* the distinct identifiers of page j of the recognized document
PageSet(j) == {raw_blocks_per_page[j][m] : m \in 1..Len(raw_blocks_per_page[j])}

\* C13: the NoiseSet get_blocks_per_page_with_ocr computes is the
\* intersection of the per-page distinct-identifier sets: an identifier is in
\* it exactly if it occurs on every page, however often; it is empty for a
\* document of zero pages and whenever some page has no identifier.
C13_NoiseIsIntersection ==
    pc \in {"pages", "saved"} =>
        /\ \A b \in global_noise \cup UNION {PageSet(j) : j \in 1..Len(raw_blocks_per_page)} :
              b \in global_noise <=>
                  /\ raw_blocks_per_page # <<>>
                  /\ \A j \in 1..Len(raw_blocks_per_page) : b \in PageSet(j)
        /\ (raw_blocks_per_page = <<>> => global_noise = {})
        /\ ((\E j \in 1..Len(raw_blocks_per_page) : PageSet(j) = {})
                => global_noise = {})

\* C13 witness: two pages, 108 on both (twice on neither), 109 twice on one
\* page only: the noise is {108}.
C13_Witness ==
    /\ pc = "pages"
    /\ Len(raw_blocks_per_page) = 2
    /\ raw_blocks_per_page[1] = <<109, 109, 108>>
    /\ raw_blocks_per_page[2] = <<107, 108, 110>>
    /\ global_noise = {108}
    /\ page_blocks = <<<<109, 109>>, <<107, 110>>>>

(***************************************************************************)
(* Claims about the block sequence used for the lookup.                    *)
(***************************************************************************)
\* C14: in every variant, the hardcoded-table scripts included, the block
\* sequence of a page used for the image lookup is deduplicated: between two
\* consecutive source pages of the output no image asset appears twice.
C14_AssetOncePerPage ==
    \A j \in 1..Len(writer) : \A m \in 1..Len(writer) :
        (j < m /\ IsImg(writer[j]) /\ writer[j] = writer[m]) =>
            \E s \in (j + 1)..(m - 1) : IsSrc(writer[s])

(***************************************************************************)
(* Claims about clustering and selection (checked under SpecNorm).         *)
(***************************************************************************)
\* the clusters normalize_page_blocks forms of the survivors
TheClusters ==
    Clusters(UniqSorted(Present(blocks, images_by_block)), cfg.cluster_gap)

ClusterOf(b) == CHOOSE c \in 1..Len(TheClusters) : b \in Range(TheClusters[c])

Span(c) == Last(c) - c[1]

Adjacent(a, b) == a < b /\ ~\E x \in Survivors : a < x /\ x < b

\* C15: over the sorted distinct survivors, any two identifiers belong to the
\* same cluster if and only if their numeric gap is <= cluster_gap.
C15_SameClusterIffGapWithin ==
    (NormReturned /\ Survivors # {}) =>
        \A a \in Survivors : \A b \in Survivors :
            a < b => (ClusterOf(a) = ClusterOf(b) <=> b - a <= cfg.cluster_gap)

\* C15 (amended): the clusters are consecutive pieces of the sorted distinct
\* survivors, and two survivors that are neighbours in that order belong to
\* the same cluster if and only if their gap is <= cluster_gap; a cluster is a
\* maximal chain of such neighbours, whose ends may be further apart.
C15_NeighboursClusteredIffGapWithin ==
    (NormReturned /\ Survivors # {}) =>
        /\ Concat(TheClusters) = SortedAsc(Survivors)
        /\ \A c \in 1..Len(TheClusters) : TheClusters[c] # <<>>
        /\ \A a \in Survivors : \A b \in Survivors :
              Adjacent(a, b) =>
                  (ClusterOf(a) = ClusterOf(b) <=> b - a <= cfg.cluster_gap)

\* C15 witness: two clusters, the first a chain whose ends are further apart
\* than cluster_gap.
C15_Witness ==
    /\ pc = "normalized"
    /\ Survivors # {}
    /\ Len(TheClusters) = 2
    /\ Len(TheClusters[1]) = 3
    /\ Span(TheClusters[1]) > cfg.cluster_gap

\* C16: the selected cluster is one of the clusters, no cluster has more
\* members, and no cluster with as many members has a smaller span; what
\* normalize_page_blocks returns runs from its minimum to its maximum.
C16_BestCluster ==
    (NormReturned /\ Survivors # {}) =>
        LET best == BestOf(blocks, images_by_block, cfg) IN
        /\ best \in Range(TheClusters)
        /\ \A c \in Range(TheClusters) :
              /\ Len(c) <= Len(best)
              /\ Len(c) = Len(best) => Span(best) <= Span(c)
        /\ SetMin(Range(normalized)) = best[1]
        /\ SetMax(Range(normalized)) = Last(best)

\* C16 witness: two clusters of equal size; the later, narrower one is selected.
C16_Witness ==
    /\ pc = "normalized"
    /\ Survivors # {}
    /\ Len(TheClusters) = 2
    /\ Len(TheClusters[1]) = Len(TheClusters[2])
    /\ Span(TheClusters[2]) < Span(TheClusters[1])
    /\ BestOf(blocks, images_by_block, cfg) = TheClusters[2]
    /\ normalized = TheClusters[2]

\* normalize_page_blocks with the consecutive-duplicate collapse left out
NormalizeUncollapsed(bs, idx, c) ==
    LET present == Present(bs, idx) IN
    IF present = <<>> THEN <<>>
    ELSE LET best == Best(Clusters(SortedAsc(Range(present)), c.cluster_gap))
         IN IF OkForFill(best, Cardinality(Range(present)), c)
            THEN FillRange(best[1], Last(best), idx)
            ELSE best

\* C19: for a fixed catalog and thresholds the result of
\* normalize_page_blocks depends only on the set of distinct survivors: it is
\* the result for the survivors listed once in ascending order, whatever the
\* order, the repeat counts and the adjacency of repeats in the stream, and
\* leaving the consecutive-duplicate collapse out gives the same result.
C19_DependsOnSurvivorSetOnly ==
    NormReturned =>
        /\ normalized =
              normalize_page_blocks(SortedAsc(Survivors), images_by_block, cfg)
        /\ normalized = NormalizeUncollapsed(blocks, images_by_block, cfg)

\* C19 witness: a stream out of order with an adjacent and a separated
\* repeat, which the collapse shortens but leaves with a repeat.
C19_Witness ==
    /\ pc = "normalized"
    /\ blocks = ExampleStream
    /\ DOMAIN images_by_block = {107, 108, 109}
    /\ DedupConsec(Present(blocks, images_by_block)) = <<107, 109, 108, 107>>
    /\ normalized = <<107, 108, 109>>

(***************************************************************************)
(* Claims about the order of the ImageIndex (checked under SpecIndex).     *)
(***************************************************************************)
\* C18: the ImageIndex of merge_pdf_with_easyocr is deterministic. The asset
\* sequence of each block is sorted by the ordering key (level token,
\* sequence token, lower-cased file name), and any listing that holds the
\* same file names in another order gives the identical ImageIndex: ties in
\* the ordering key do not make the order depend on the listing order.
C18_IndexIndependentOfListingOrder ==
    (pc = "indexed" /\ script = EASYOCR) =>
        /\ \A b \in DOMAIN images_by_block :
              \A j \in 1..(Len(images_by_block[b]) - 1) :
                  ~SortKeyLess(images_by_block[b][j + 1], images_by_block[b][j])
        /\ \A l \in Listings :
              Range(ImageFilesOf(l)) = Range(image_files) =>
                  easy_images_by_block(l) = images_by_block

(***************************************************************************)
(* Claims about the renderer (checked under SpecRender).                   *)
(***************************************************************************)
\* C17: the renderer never crops. For all positive image dimensions and page
\* sizes the scaled width and height image_to_pdf_page computes are each <=
\* the target pixel dimensions, and where a page is produced the centering
\* offsets are non-negative and the pasted image lies inside the canvas.
C17_NeverCrops ==
    pc = "rendered" =>
        /\ rendered.size[1] <= rendered.target[1]
        /\ rendered.size[2] <= rendered.target[2]
        /\ rendered.page = "page" =>
              /\ rendered.size[1] >= 1 /\ rendered.size[2] >= 1
              /\ rendered.offset[1] >= 0 /\ rendered.offset[2] >= 0
              /\ rendered.offset[1] + rendered.size[1] <= rendered.target[1]
              /\ rendered.offset[2] + rendered.size[2] <= rendered.target[2]

\* C17 witness: an image wider and higher than the page's pixels, scaled
\* down to the full target width and centred vertically.
C17_Witness ==
    /\ pc = "rendered"
    /\ rendered.page = "page"
    /\ img_size[1] > rendered.target[1]
    /\ img_size[2] > rendered.target[2]
    /\ rendered.size[1] = rendered.target[1]
    /\ rendered.size[2] < rendered.target[2]
    /\ rendered.offset[2] > 0

====
